---- MODULE Spec2Model ----
(***************************************************************************)
(* Model of the gamedevjam2024 plugins: the event-driven sound player of   *)
(* src/src/sound.rs (SoundResource, play_sfx, play_music, stop_music) and  *)
(* the sprite animation driver of src/src/gfx.rs (Animation,               *)
(* update_animations).                                                     *)
(*                                                                         *)
(* Time is counted in integer units (Duration is an integer count of       *)
(* nanoseconds).  Indices into frames are 0-based as in the source; the    *)
(* TLA+ sequence is read at index + 1.                                     *)
(***************************************************************************)
EXTENDS Integers, Sequences, FiniteSets, TLC

(* ------------------------------ bounds -------------------------------- *)
MaxSfx == 2
MaxMusic == 1
MaxStops == 1
MaxEntityId == 4
MaxFrames == 3
MaxFrameTime == 2
MaxDelta == 3

(* Sound names carried by events and the audio handles a name can map to. *)
Names == {"x", "y"}
Handles == {"hx", "hy"}
NoHandle == "none"

VARIABLES
    sound_map,      \* SoundResource.map : name -> handle (NoHandle = absent)
    entities,       \* the audio entities of the world
    next_id,        \* entity allocator: the next id Commands::spawn reserves
    unread_sfx,     \* PlaySFX events of the previous frame that play_music's
                    \* EventReader<PlaySFX> has not read yet
    batch,          \* the events delivered in the current frame
    phase,          \* "idle" between frames, "running" inside the Update schedule
    pending,        \* systems whose run condition held and that have not run yet
    ran,            \* systems that ran in the current frame
    commands,       \* deferred commands issued in the current frame, in issue order
    warnings,       \* names logged by warn!("Sound not found") in the current frame
    crashed,        \* the system that panicked, "none" while the app runs
    started,        \* the app runs: the first frame has begun
    inst,           \* one Animation value, ticked directly through Animation::tick
    inst_ret,       \* what the last Animation::tick call on inst returned
    inst_hist,      \* bookkeeping on the tick calls made on inst so far
    sprites,        \* the entities carrying a TextureAtlas (and maybe an Animation)
    anim_cmds,      \* the commands update_animations issued in its last run
    despawns,       \* per entity, the despawn commands update_animations issued so far
    anim_panicked,  \* update_animations panicked
    anim_map,       \* AnimationResource.map : name -> Animation (NoAnimation = absent)
    anim_last,      \* per name, the Animation of the latest AnimationResource::insert
    sound_last,     \* per name, the handle of the latest SoundResource::insert
    got_sound       \* what the last SoundResource::get call returned

sound_vars == <<sound_map, entities, next_id, unread_sfx, batch, phase, pending,
                ran, commands, warnings, crashed, started>>
inst_vars == <<inst, inst_ret, inst_hist>>
driver_vars == <<sprites, anim_cmds, despawns, anim_panicked>>
table_vars == <<anim_map, anim_last, sound_last, got_sound>>
vars == <<sound_vars, inst_vars, driver_vars, table_vars>>

(* --------------------------- pure helpers ----------------------------- *)
EventSeqs(max) == UNION {[1..n -> Names] : n \in 0..max}

NoEvents == [sfx |-> <<>>, music |-> <<>>, stops |-> 0]

\* Query<Entity, With<NowPlaying>>
PlayingQuery(world) == {e \in world : e.now_playing}

\* SoundResource::get / map.get
SoundGet(map, name) == map[name]

\* An insert that keeps the entry a name already has.
SoundMapInsert_KeepFirst(map, name, handle) ==
    IF map[name] = NoHandle THEN [map EXCEPT ![name] = handle] ELSE map

\* SoundResource::insert: HashMap::insert replaces the entry of the name.
SoundMapInsert(map, name, handle) == [map EXCEPT ![name] = handle]

\* The events of a batch whose name resolves, in order.
Resolved(map, events) == SelectSeq(events, LAMBDA n : SoundGet(map, n) # NoHandle)
Unresolved(map, events) == SelectSeq(events, LAMBDA n : SoundGet(map, n) = NoHandle)

SpawnCmd(by, id, handle, mode, marker) ==
    [op |-> "spawn", by |-> by,
     entity |-> [id |-> id, source |-> handle, mode |-> mode, now_playing |-> marker]]

DespawnCmd(by, id) == [op |-> "despawn", by |-> by, id |-> id]

\* A play_sfx whose loop ends at the first event that does not resolve.
FirstMiss(map, events) ==
    IF Unresolved(map, events) = <<>> THEN Len(events) + 1
    ELSE CHOOSE i \in 1..Len(events) :
            /\ SoundGet(map, events[i]) = NoHandle
            /\ \A j \in 1..(i - 1) : SoundGet(map, events[j]) # NoHandle

PlaySfxCommands_StopAtMiss(map, events, first_id) ==
    LET ok == SubSeq(events, 1, FirstMiss(map, events) - 1)
    IN  [i \in 1..Len(ok) |->
            SpawnCmd("play_sfx", first_id + i - 1, SoundGet(map, ok[i]), "Despawn", FALSE)]

\* play_sfx: one spawn of a PlaybackMode::Despawn bundle per resolving event.
PlaySfxCommands(map, events, first_id) ==
    LET ok == Resolved(map, events)
    IN  [i \in 1..Len(ok) |->
            SpawnCmd("play_sfx", first_id + i - 1, SoundGet(map, ok[i]), "Despawn", FALSE)]

\* play_sfx: the else branch, warn!("Sound not found: {}").
PlaySfxWarnings(map, events) == Unresolved(map, events)

\* play_music, first statement: despawn the entity holding NowPlaying.
DespawnPlaying(by, playing) ==
    IF playing # {} THEN <<DespawnCmd(by, (CHOOSE e \in playing : TRUE).id)>> ELSE <<>>

\* play_music, the loop: it iterates an EventReader<PlaySFX>, so the events it
\* sees are the PlaySFX events, and every resolving one spawns a Loop bundle
\* with NowPlaying inserted.
PlayMusicSpawns(map, sfx_events, first_id) ==
    LET ok == Resolved(map, sfx_events)
    IN  [i \in 1..Len(ok) |->
            SpawnCmd("play_music", first_id + i - 1, SoundGet(map, ok[i]), "Loop", TRUE)]

\* Query::single() panics unless exactly one entity matches; it is only
\* called when the query is not empty.
SinglePanics(playing) == Cardinality(playing) > 1

Spawned(cmds) == {cmds[i].entity : i \in {j \in 1..Len(cmds) : cmds[j].op = "spawn"}}
Despawned(cmds) == {cmds[i].id : i \in {j \in 1..Len(cmds) : cmds[j].op = "despawn"}}

\* Applying the deferred commands of a schedule run to the world.
Apply(world, cmds) ==
    {e \in world \cup Spawned(cmds) : e.id \notin Despawned(cmds)}

CommandsBy(cmds, by) == SelectSeq(cmds, LAMBDA c : c.by = by)

(* ------------------------------ Init ---------------------------------- *)
SoundInit ==
    /\ sound_map = [n \in Names |-> NoHandle]
    /\ entities = {}
    /\ next_id = 1
    /\ unread_sfx = <<>>
    /\ batch = NoEvents
    /\ phase = "idle"
    /\ pending = {}
    /\ ran = {}
    /\ commands = <<>>
    /\ warnings = <<>>
    /\ crashed = "none"
    /\ started = FALSE

(* ----------------------------- actions -------------------------------- *)
\* SoundResource::insert.  It takes &mut self and every system of the plugin
\* holds the registry as Res<SoundResource> (shared, read-only), so the
\* registry is filled by setup code before the app runs.
SoundInsert(name, handle) ==
    /\ ~started
    /\ sound_map' = SoundMapInsert(sound_map, name, handle)
    /\ sound_last' = [sound_last EXCEPT ![name] = handle]
    /\ UNCHANGED <<entities, next_id, unread_sfx, batch, phase, pending, ran,
                   commands, warnings, crashed, started>>
    /\ UNCHANGED <<inst_vars, driver_vars, anim_map, anim_last, got_sound>>

\* A frame starts: the event bus holds this frame's events and the run
\* conditions on_event::<E>() of SoundPlugin::build select the systems.
SendEvents(sfx, music, stops) ==
    /\ phase = "idle"
    /\ crashed = "none"
    /\ next_id + Len(unread_sfx) + 2 * Len(sfx) <= MaxEntityId + 1
    /\ batch' = [sfx |-> sfx, music |-> music, stops |-> stops]
    /\ pending' = {s \in {"play_sfx", "play_music", "stop_music"} :
                      \/ s = "play_sfx" /\ sfx # <<>>
                      \/ s = "play_music" /\ music # <<>>
                      \/ s = "stop_music" /\ stops > 0}
    /\ ran' = {}
    /\ commands' = <<>>
    /\ warnings' = <<>>
    /\ phase' = "running"
    /\ started' = TRUE
    /\ UNCHANGED <<sound_map, entities, next_id, unread_sfx, crashed>>
    /\ UNCHANGED <<inst_vars, driver_vars, table_vars>>

\* fn play_sfx
PlaySfx ==
    /\ phase = "running"
    /\ crashed = "none"
    /\ "play_sfx" \in pending
    /\ LET cmds == PlaySfxCommands(sound_map, batch.sfx, next_id)
       IN  /\ commands' = commands \o cmds
           /\ next_id' = next_id + Len(cmds)
    /\ warnings' = warnings \o PlaySfxWarnings(sound_map, batch.sfx)
    /\ pending' = pending \ {"play_sfx"}
    /\ ran' = ran \cup {"play_sfx"}
    /\ UNCHANGED <<sound_map, entities, unread_sfx, batch, phase, crashed, started>>
    /\ UNCHANGED <<inst_vars, driver_vars, table_vars>>

\* fn play_music
PlayMusic ==
    /\ phase = "running"
    /\ crashed = "none"
    /\ "play_music" \in pending
    /\ LET playing == PlayingQuery(entities)
       IN  IF SinglePanics(playing)
           THEN /\ crashed' = "play_music"
                /\ UNCHANGED <<commands, next_id>>
           ELSE LET spawns == PlayMusicSpawns(sound_map, unread_sfx \o batch.sfx,
                                              next_id)
                IN  /\ commands' = commands \o DespawnPlaying("play_music", playing)
                                             \o spawns
                    /\ next_id' = next_id + Len(spawns)
                    /\ UNCHANGED crashed
    /\ pending' = pending \ {"play_music"}
    /\ ran' = ran \cup {"play_music"}
    /\ UNCHANGED <<sound_map, entities, unread_sfx, batch, phase, warnings, started>>
    /\ UNCHANGED <<inst_vars, driver_vars, table_vars>>

\* fn stop_music
StopMusic ==
    /\ phase = "running"
    /\ crashed = "none"
    /\ "stop_music" \in pending
    /\ LET playing == PlayingQuery(entities)
       IN  IF SinglePanics(playing)
           THEN /\ crashed' = "stop_music"
                /\ UNCHANGED commands
           ELSE /\ commands' = commands \o DespawnPlaying("stop_music", playing)
                /\ UNCHANGED crashed
    /\ pending' = pending \ {"stop_music"}
    /\ ran' = ran \cup {"stop_music"}
    /\ UNCHANGED <<sound_map, entities, next_id, unread_sfx, batch, phase, warnings,
                   started>>
    /\ UNCHANGED <<inst_vars, driver_vars, table_vars>>

\* End of the Update schedule: the deferred commands are applied, and the
\* PlaySFX events of this frame stay readable for one more frame by a reader
\* that did not consume them.
ApplyCommands ==
    /\ phase = "running"
    /\ crashed = "none"
    /\ pending = {}
    /\ entities' = Apply(entities, commands)
    /\ unread_sfx' = IF "play_music" \in ran THEN <<>> ELSE batch.sfx
    /\ phase' = "idle"
    /\ batch' = NoEvents
    /\ ran' = {}
    /\ commands' = <<>>
    /\ warnings' = <<>>
    /\ UNCHANGED <<sound_map, next_id, pending, crashed, started>>
    /\ UNCHANGED <<inst_vars, driver_vars, table_vars>>

SoundNext ==
    \/ \E n \in Names, h \in Handles : SoundInsert(n, h)
    \/ \E sfx \in EventSeqs(MaxSfx), music \in EventSeqs(MaxMusic), stops \in 0..MaxStops :
          SendEvents(sfx, music, stops)
    \/ PlaySfx
    \/ PlayMusic
    \/ StopMusic
    \/ ApplyCommands


(* ======================= gfx.rs: Animation ============================ *)
AnimationTypes == {"Once", "Repeat", "Despawn"}

\* Frame sequences handed to Animation::new: atlas indices, of every length
\* up to MaxFrames (the empty sequence included: Animation::new accepts it).
Strip(n) == [i \in 1..n |-> 2 * i + 1]
FrameSeqs == {Strip(n) : n \in 0..MaxFrames}
FrameTimes == 0..MaxFrameTime
Deltas == 0..MaxDelta
MaxTicks == MaxFrames + 2

NoAnimation == [none |-> TRUE]
NoReturn == -1

\* Timer::from_seconds(frame_time, TimerMode::Once)
TimerNew(frame_time) == [elapsed |-> 0, duration |-> frame_time, finished |-> FALSE]

\* Timer::tick for TimerMode::Once: a finished timer stays as it is; otherwise
\* the elapsed time grows, is clamped to the duration, and finished is set
\* once elapsed >= duration.
TimerTick(t, delta) ==
    IF t.finished THEN t
    ELSE IF t.elapsed + delta >= t.duration
         THEN [t EXCEPT !.elapsed = t.duration, !.finished = TRUE]
         ELSE [t EXCEPT !.elapsed = t.elapsed + delta]

\* Timer::reset
TimerReset(t) == [t EXCEPT !.elapsed = 0, !.finished = FALSE]

\* Animation::new
AnimationNew(frames, frame_time, animation_type) ==
    [index |-> 0, frames |-> frames, timer |-> TimerNew(frame_time),
     animation_type |-> animation_type, finished |-> FALSE]

\* advance_frame comparing against frames.len() instead of frames.len() - 1.
AdvanceFrame_OffByOne(a) ==
    IF a.animation_type = "Repeat"
    THEN [a EXCEPT !.index = (a.index + 1) % Len(a.frames),
                   !.timer = TimerReset(a.timer)]
    ELSE IF a.index < Len(a.frames)
         THEN [a EXCEPT !.index = a.index + 1, !.timer = TimerReset(a.timer)]
         ELSE [a EXCEPT !.finished = TRUE]

\* advance_frame setting finished as soon as the last frame becomes current.
AdvanceFrame_EarlyFinish(a) ==
    IF a.animation_type = "Repeat"
    THEN [a EXCEPT !.index = (a.index + 1) % Len(a.frames),
                   !.timer = TimerReset(a.timer)]
    ELSE IF a.index < Len(a.frames) - 1
         THEN [a EXCEPT !.index = a.index + 1, !.timer = TimerReset(a.timer),
                        !.finished = (a.index + 1 = Len(a.frames) - 1)]
         ELSE [a EXCEPT !.finished = TRUE]

\* advance_frame without the early return of the Repeat branch.
AdvanceFrame_NoReturn(a) ==
    LET b == IF a.animation_type = "Repeat"
             THEN [a EXCEPT !.index = (a.index + 1) % Len(a.frames),
                            !.timer = TimerReset(a.timer)]
             ELSE a
    IN  IF b.index < Len(b.frames) - 1
        THEN [b EXCEPT !.index = b.index + 1, !.timer = TimerReset(b.timer)]
        ELSE [b EXCEPT !.finished = TRUE]

\* advance_frame setting finished on every advance of a non-repeating kind.
AdvanceFrame_FinishEveryCrossing(a) ==
    IF a.animation_type = "Repeat"
    THEN [a EXCEPT !.index = (a.index + 1) % Len(a.frames),
                   !.timer = TimerReset(a.timer)]
    ELSE IF a.index < Len(a.frames) - 1
         THEN [a EXCEPT !.index = a.index + 1, !.timer = TimerReset(a.timer),
                        !.finished = TRUE]
         ELSE [a EXCEPT !.finished = TRUE]

\* advance_frame taking the Repeat branch for every kind.
AdvanceFrame_AlwaysRepeat(a) ==
    [a EXCEPT !.index = (a.index + 1) % Len(a.frames),
              !.timer = TimerReset(a.timer)]

\* advance_frame whose Repeat branch does not reset the timer.
AdvanceFrame_RepeatNoReset(a) ==
    IF a.animation_type = "Repeat"
    THEN [a EXCEPT !.index = (a.index + 1) % Len(a.frames)]
    ELSE IF a.index < Len(a.frames) - 1
         THEN [a EXCEPT !.index = a.index + 1, !.timer = TimerReset(a.timer)]
         ELSE [a EXCEPT !.finished = TRUE]

\* Animation::advance_frame (frames not empty)
AdvanceFrame(a) ==
    IF a.animation_type = "Repeat"
    THEN [a EXCEPT !.index = (a.index + 1) % Len(a.frames),
                   !.timer = TimerReset(a.timer)]
    ELSE IF a.index < Len(a.frames) - 1
         THEN [a EXCEPT !.index = a.index + 1, !.timer = TimerReset(a.timer)]
         ELSE [a EXCEPT !.finished = TRUE]

\* A tick that advances a second frame when delta covers two durations.
Tick_CatchUp(a, delta) ==
    LET b == [a EXCEPT !.timer = TimerTick(a.timer, delta)]
    IN  IF b.timer.finished
        THEN IF delta >= 2 * a.timer.duration /\ a.index + 2 < Len(a.frames)
             THEN AdvanceFrame(AdvanceFrame(b))
             ELSE AdvanceFrame(b)
        ELSE b

\* Animation::tick, the state it leaves (frames not empty)
Tick(a, delta) ==
    LET b == [a EXCEPT !.timer = TimerTick(a.timer, delta)]
    IN  IF b.timer.finished THEN AdvanceFrame(b) ELSE b

\* Animation::tick panics on an empty frame sequence: frames[self.index] is
\* out of bounds, and advance_frame divides by frames.len() (Repeat) or
\* computes frames.len() - 1 on a usize (Once, Despawn) before that.
EmptyPanics(a) == Len(a.frames) = 0

\* Animation::tick panics when frames[self.index] is read out of bounds.
TickPanics(a, delta) == EmptyPanics(a) \/ Tick(a, delta).index >= Len(a.frames)

\* Animation::tick, the value it returns: self.frames[self.index]
CurrentFrame(a) == a.frames[a.index + 1]

\* The timer of a fires in a tick of delta: advance_frame is called.
Crosses(a, delta) == TimerTick(a.timer, delta).finished

\* A tick of delta on a covers one frame duration and less than two.
OneBoundary(a, delta) ==
    /\ a.timer.duration > 0
    /\ a.timer.duration <= delta
    /\ delta < 2 * a.timer.duration

InstInit ==
    /\ inst = NoAnimation
    /\ inst_ret = NoReturn
    /\ inst_hist = [crossings |-> 0, total |-> 0, exact |-> TRUE, panicked |-> FALSE]

\* let inst = Animation::new(atlas, frames, frame_time, animation_type)
NewInstance(frames, frame_time, animation_type) ==
    /\ inst = NoAnimation
    /\ inst' = AnimationNew(frames, frame_time, animation_type)
    /\ UNCHANGED <<inst_ret, inst_hist>>
    /\ UNCHANGED <<sound_vars, driver_vars, table_vars>>

\* One call of Animation::tick(delta) on inst.
TickInstance(delta) ==
    /\ inst # NoAnimation
    /\ ~inst_hist.panicked
    /\ inst_hist.crossings < MaxTicks
    /\ IF TickPanics(inst, delta)
       THEN /\ inst_hist' = [inst_hist EXCEPT !.panicked = TRUE]
            /\ inst' = IF EmptyPanics(inst) THEN inst ELSE Tick(inst, delta)
            /\ UNCHANGED inst_ret
       ELSE /\ inst' = Tick(inst, delta)
            /\ inst_ret' = CurrentFrame(inst')
            /\ inst_hist' = [inst_hist EXCEPT
                   !.crossings = IF Crosses(inst, delta) THEN @ + 1 ELSE @,
                   !.total = @ + delta,
                   !.exact = @ /\ OneBoundary(inst, delta)]
    /\ UNCHANGED <<sound_vars, driver_vars, table_vars>>

InstNext ==
    \/ \E f \in FrameSeqs, t \in FrameTimes, k \in AnimationTypes : NewInstance(f, t, k)
    \/ \E delta \in Deltas : TickInstance(delta)

(* ==================== gfx.rs: update_animations ======================= *)
SpriteIds == {"s1", "s2"}
SpriteStart == {0, 3}

NoSprite(state) == [state |-> state, index |-> 0, animation |-> NoAnimation]

\* Query<(Entity, &mut TextureAtlas, &mut Animation)>
AnimQuery(world) ==
    {e \in SpriteIds : world[e].state = "alive" /\ world[e].animation # NoAnimation}

\* update_animations with the Despawn arm removing the component like Once.
DriverCommand_DespawnAsRemove(a) ==
    IF a.finished
    THEN CASE a.animation_type = "Once" -> "remove"
           [] a.animation_type = "Despawn" -> "remove"
           [] OTHER -> "none"
    ELSE "none"

\* update_animations with the Once arm despawning the entity like Despawn.
DriverCommand_OnceAsDespawn(a) ==
    IF a.finished
    THEN CASE a.animation_type = "Once" -> "despawn"
           [] a.animation_type = "Despawn" -> "despawn"
           [] OTHER -> "none"
    ELSE "none"

\* The command update_animations issues for an entity whose animation is a
\* after its tick.
DriverCommand(a) ==
    IF a.finished
    THEN CASE a.animation_type = "Once" -> "remove"
           [] a.animation_type = "Despawn" -> "despawn"
           [] OTHER -> "none"
    ELSE "none"

\* The loop body of update_animations for one entity: tick, write the
\* sprite index when it differs.
DriverStep(s, delta) ==
    LET a == Tick(s.animation, delta)
        next_index == CurrentFrame(a)
    IN  [s EXCEPT !.animation = a,
                  !.index = IF next_index # s.index THEN next_index ELSE s.index]

\* Applying one entity's command at the end of the FixedUpdate run.
ApplyDriverCommand(s, cmd) ==
    CASE cmd = "remove" -> [s EXCEPT !.animation = NoAnimation]
      [] cmd = "despawn" -> NoSprite("despawned")
      [] OTHER -> s

DriverInit ==
    /\ sprites = [e \in SpriteIds |-> NoSprite("unspawned")]
    /\ anim_cmds = {}
    /\ despawns = [e \in SpriteIds |-> 0]
    /\ anim_panicked = FALSE

\* Setup code spawns an entity with a TextureAtlas and an Animation::new(..).
SpawnSprite(e, frames, frame_time, animation_type, start) ==
    /\ ~anim_panicked
    /\ sprites[e].state = "unspawned"
    /\ sprites' = [sprites EXCEPT ![e] =
           [state |-> "alive", index |-> start,
            animation |-> AnimationNew(frames, frame_time, animation_type)]]
    /\ UNCHANGED <<anim_cmds, despawns, anim_panicked>>
    /\ UNCHANGED <<sound_vars, inst_vars, table_vars>>

\* One run of update_animations in FixedUpdate with Time::delta_seconds() =
\* delta, followed by the application of its commands.
UpdateAnimations(delta) ==
    /\ ~anim_panicked
    /\ LET q == AnimQuery(sprites)
       IN  IF \E e \in q : TickPanics(sprites[e].animation, delta)
           THEN /\ anim_panicked' = TRUE
                /\ UNCHANGED <<sprites, anim_cmds, despawns>>
           ELSE LET stepped == [e \in SpriteIds |->
                                   IF e \in q THEN DriverStep(sprites[e], delta)
                                   ELSE sprites[e]]
                    cmd == [e \in SpriteIds |->
                                   IF e \in q THEN DriverCommand(stepped[e].animation)
                                   ELSE "none"]
                IN  /\ sprites' = [e \in SpriteIds |->
                                      ApplyDriverCommand(stepped[e], cmd[e])]
                    /\ anim_cmds' = {[op |-> cmd[e], entity |-> e] :
                                        e \in {x \in SpriteIds : cmd[x] # "none"}}
                    /\ despawns' = [e \in SpriteIds |->
                                      IF cmd[e] = "despawn" THEN despawns[e] + 1
                                      ELSE despawns[e]]
                    /\ UNCHANGED anim_panicked
    /\ UNCHANGED <<sound_vars, inst_vars, table_vars>>

DriverNext ==
    \/ \E e \in SpriteIds, f \in FrameSeqs, t \in FrameTimes, k \in AnimationTypes,
          start \in SpriteStart : SpawnSprite(e, f, t, k, start)
    \/ \E delta \in Deltas : UpdateAnimations(delta)

(* ============ gfx.rs: AnimationResource / sound.rs: SoundResource ====== *)
AnimNames == {"idle", "walk"}

\* The Animation values setup code registers.
TableAnimations == {AnimationNew(Strip(2), 1, k) : k \in {"Once", "Repeat"}}

\* An insert that keeps the entry a name already has.
AnimationInsert_KeepFirst(map, name, animation) ==
    IF map[name] = NoAnimation THEN [map EXCEPT ![name] = animation] ELSE map

\* AnimationResource::insert: self.map.insert(name, animation.clone())
AnimationInsert(map, name, animation) == [map EXCEPT ![name] = animation]

\* AnimationResource::get: self.map.get(name).cloned(), a copy by value
\* (NoAnimation stands for None).
AnimationGet(map, name) == map[name]

TableInit ==
    /\ anim_map = [n \in AnimNames |-> NoAnimation]
    /\ anim_last = [n \in AnimNames |-> NoAnimation]
    /\ sound_last = [n \in Names |-> NoHandle]
    /\ got_sound = NoHandle

\* animation_resource.insert(name, animation)
AnimInsert(name, animation) ==
    /\ anim_map' = AnimationInsert(anim_map, name, animation)
    /\ anim_last' = [anim_last EXCEPT ![name] = animation]
    /\ UNCHANGED <<sound_last, got_sound>>
    /\ UNCHANGED <<sound_vars, inst_vars, driver_vars>>

\* let inst = animation_resource.get(name): the caller's Animation value is
\* the clone the registry returns (none when the name is not registered).
AnimGet(name) ==
    /\ inst' = AnimationGet(anim_map, name)
    /\ inst_ret' = NoReturn
    /\ inst_hist' = [crossings |-> 0, total |-> 0, exact |-> TRUE, panicked |-> FALSE]
    /\ UNCHANGED table_vars
    /\ UNCHANGED <<sound_vars, driver_vars>>

\* sound_resource.get(name)
SoundGetCall(name) ==
    /\ got_sound' = SoundGet(sound_map, name)
    /\ UNCHANGED <<anim_map, anim_last, sound_last>>
    /\ UNCHANGED <<sound_vars, inst_vars, driver_vars>>

TableNext ==
    \/ \E n \in AnimNames, a \in TableAnimations : AnimInsert(n, a)
    \/ \E n \in AnimNames : AnimGet(n)
    \/ \E delta \in Deltas : TickInstance(delta)
    \/ \E n \in Names, h \in Handles : SoundInsert(n, h)
    \/ \E n \in Names : SoundGetCall(n)

(* ============================== claims ================================ *)
\* Every system selected for the current frame has run and none panicked:
\* the state in which the schedule applies the deferred commands.
FrameDone == phase = "running" /\ pending = {} /\ crashed = "none"

\* The world after the commands of the current frame are applied.
PostWorld == Apply(entities, commands)

Registered(n) == sound_map[n] # NoHandle

Count(seq, P(_)) == Cardinality({i \in 1..Len(seq) : P(seq[i])})

\* C1: at most one entity holds the music marker (NowPlaying) in every
\* reachable state.
C1_AtMostOneMarker == Cardinality({e \in entities : e.now_playing}) <= 1

\* C2: with no marker holder, a frame delivering the single event
\* PlayMusic(x), x registered, and no other event, ends with exactly one new
\* entity, which plays x in Loop mode and holds the marker.
C2_PlayMusicSpawnsOne ==
    ( /\ FrameDone
      /\ {e \in entities : e.now_playing} = {}
      /\ batch.sfx = <<>> /\ batch.stops = 0 /\ Len(batch.music) = 1
      /\ Registered(batch.music[1]) )
    => \E e \in PostWorld \ entities :
          /\ PostWorld \ entities = {e}
          /\ e.source = sound_map[batch.music[1]]
          /\ e.mode = "Loop"
          /\ e.now_playing

\* C3: with an entity holding the marker, a frame delivering PlayMusic(y), y
\* registered, issues the despawn of that entity first and ends with that
\* entity gone and a newly spawned Loop entity playing y as the only marker
\* holder.
C3_PlayMusicReplaces ==
    \A old \in entities :
        ( /\ FrameDone
          /\ {e \in entities : e.now_playing} = {old}
          /\ batch.sfx = <<>> /\ batch.stops = 0 /\ Len(batch.music) = 1
          /\ Registered(batch.music[1]) )
        => /\ old \notin PostWorld
           /\ commands # <<>> /\ commands[1] = DespawnCmd("play_music", old.id)
           /\ \E e \in PostWorld \ entities :
                 /\ {m \in PostWorld : m.now_playing} = {e}
                 /\ e.source = sound_map[batch.music[1]]
                 /\ e.mode = "Loop"

\* C4: with an entity holding the marker, a frame delivering PlayMusic(name),
\* name not registered, ends with that entity gone, nothing spawned by the
\* music handler and no marker holder, and the handler does not panic.
C4_PlayMusicMissing ==
    \A old \in entities :
        ( /\ phase = "running" /\ "play_music" \in ran
          /\ {e \in entities : e.now_playing} = {old}
          /\ Len(batch.music) = 1
          /\ ~Registered(batch.music[1]) )
        => /\ crashed # "play_music"
           /\ CommandsBy(commands, "play_music") = <<DespawnCmd("play_music", old.id)>>
           /\ (FrameDone => old \notin PostWorld /\ {m \in PostWorld : m.now_playing} = {})

\* C5: in a frame's PlaySFX batch every event with an unregistered name
\* spawns nothing and logs one "Sound not found" warning, and every event
\* with a registered name spawns exactly one Despawn-mode (one-shot) entity
\* without the marker, whatever else is in the batch.
C5_SfxBatch ==
    "play_sfx" \in ran =>
        LET mine == CommandsBy(commands, "play_sfx")
            made == {mine[i].entity : i \in 1..Len(mine)}
        IN  /\ \A i \in 1..Len(mine) :
                  /\ mine[i].op = "spawn"
                  /\ mine[i].entity.mode = "Despawn"
                  /\ ~mine[i].entity.now_playing
                  /\ mine[i].entity.id \notin {e.id : e \in entities}
            /\ Cardinality({e.id : e \in made}) = Len(mine)
            /\ \A h \in Handles :
                  Cardinality({e \in made : e.source = h})
                      = Count(batch.sfx, LAMBDA n : sound_map[n] = h)
            /\ Len(mine) = Count(batch.sfx, LAMBDA n : Registered(n))
            /\ \A n \in Names :
                  Count(warnings, LAMBDA w : w = n)
                      = IF Registered(n) THEN 0
                        ELSE Count(batch.sfx, LAMBDA m : m = n)
            /\ (FrameDone => made \subseteq PostWorld)

\* C5 witness: play_sfx has run on a batch holding an unregistered name
\* followed by a registered one.
C5_Witness ==
    /\ "play_sfx" \in ran
    /\ Len(batch.sfx) = 2
    /\ ~Registered(batch.sfx[1])
    /\ Registered(batch.sfx[2])
    /\ Len(CommandsBy(commands, "play_sfx")) = 1
    /\ Len(warnings) = 1

\* C6: stop_music run with no marker holder issues no command and raises no
\* error; run with a marker holder it issues the despawn of that entity and
\* nothing else.
C6_StopMusic ==
    "stop_music" \in ran =>
        LET mine == CommandsBy(commands, "stop_music")
            playing == {e \in entities : e.now_playing}
        IN  /\ crashed # "stop_music"
            /\ IF playing = {} THEN mine = <<>>
               ELSE \E e \in playing : mine = <<DespawnCmd("stop_music", e.id)>>

HasInst == inst # NoAnimation

\* C7: an Animation with a non-empty frame sequence, of any kind, keeps
\* 0 <= index < frames.len() after every tick call, and no tick call reads
\* frames out of bounds.
C7_IndexInBounds ==
    (HasInst /\ Len(inst.frames) > 0)
    => /\ 0 <= inst.index
       /\ inst.index < Len(inst.frames)
       /\ ~inst_hist.panicked
       /\ (inst_ret # NoReturn => \E i \in 1..Len(inst.frames) : inst_ret = inst.frames[i])

\* C7 witness: an instance on its last frame after more boundary crossings
\* than it has frames.
C7_Witness ==
    /\ HasInst
    /\ Len(inst.frames) >= 2
    /\ inst.index = Len(inst.frames) - 1
    /\ inst_hist.crossings > Len(inst.frames)

\* A Once instance with three frames whose ticks so far each covered one
\* frame duration and less than two.
Once3 ==
    /\ HasInst
    /\ inst.animation_type = "Once"
    /\ Len(inst.frames) = 3
    /\ inst_hist.exact

\* C8 as stated: once the cumulative elapsed time is >= 2d, completed is true
\* and tick returned c.
C8_CompletedAt2d ==
    (Once3 /\ inst.timer.duration > 0 /\ inst_hist.total >= 2 * inst.timer.duration)
    => inst.finished /\ inst_ret = inst.frames[3]

\* C8 amended: once the cumulative elapsed time is >= 2d tick returns c;
\* completed is true exactly from the third boundary crossing on; and every
\* further tick of a completed Once instance returns c and keeps completed.
C8_CompletedAtThirdCrossing ==
    /\ []( (Once3 /\ inst.timer.duration > 0
                  /\ inst_hist.total >= 2 * inst.timer.duration)
           => /\ inst_ret = inst.frames[3]
              /\ inst.finished <=> inst_hist.crossings >= 3 )
    /\ [][ (HasInst /\ inst.animation_type = "Once" /\ Len(inst.frames) = 3
                   /\ inst.finished /\ ~inst_hist.panicked)
           => (inst'.finished /\ inst_ret' = inst.frames[3]) ]_vars

\* C8 witness: a completed three-frame Once instance ticked once more.
C8_Witness ==
    /\ Once3
    /\ inst_hist.crossings >= 4
    /\ inst.finished
    /\ inst_ret = inst.frames[3]

\* C9: a Repeat instance never has finished = true.
C9_RepeatNeverFinished ==
    (HasInst /\ inst.animation_type = "Repeat") => ~inst.finished

\* C9 witness: a Repeat instance that has wrapped around its frame sequence.
C9_Witness ==
    /\ HasInst
    /\ inst.animation_type = "Repeat"
    /\ Len(inst.frames) >= 2
    /\ inst_hist.crossings > Len(inst.frames)
    /\ inst.index = 0

DespawnKind(s) ==
    /\ s.state = "alive"
    /\ s.animation # NoAnimation
    /\ s.animation.animation_type = "Despawn"

\* C10: for an entity with a Despawn animation the driver issues exactly one
\* despawn command in total, in the run in which finished becomes true: the
\* count never exceeds one, it is one exactly for the entities that are gone,
\* no Despawn entity survives the run that finishes its animation, and every
\* run leaves a Despawn entity either unfinished with no command issued or
\* despawned with one command issued.
C10_OneDespawn ==
    /\ [](\A e \in SpriteIds :
            /\ despawns[e] <= 1
            /\ despawns[e] = 1 <=> sprites[e].state = "despawned"
            /\ [op |-> "despawn", entity |-> e] \in anim_cmds
                   => sprites[e].state = "despawned"
            /\ DespawnKind(sprites[e]) => ~sprites[e].animation.finished)
    /\ [][\A e \in SpriteIds :
            (DespawnKind(sprites[e]) /\ ~anim_panicked')
            => \/ /\ DespawnKind(sprites'[e])
                  /\ ~sprites'[e].animation.finished
                  /\ despawns'[e] = despawns[e]
                  /\ [op |-> "despawn", entity |-> e] \notin anim_cmds'
               \/ /\ sprites'[e].state = "despawned"
                  /\ despawns'[e] = despawns[e] + 1
                  /\ sprites[e].animation.index = Len(sprites[e].animation.frames) - 1
                  /\ [op |-> "despawn", entity |-> e] \in anim_cmds'
          ]_vars

\* C10 witness: an entity was despawned by the driver and a later run of the
\* driver, which advanced the other entity, issued no command.
C10_Witness ==
    \E e \in SpriteIds, o \in SpriteIds :
        /\ sprites[e].state = "despawned"
        /\ despawns[e] = 1
        /\ anim_cmds = {}
        /\ sprites[o].state = "alive"
        /\ sprites[o].animation # NoAnimation
        /\ sprites[o].animation.index > 0

\* C11: an Animation with an empty frame sequence is rejected at
\* construction: no Animation value with empty frames exists, so none is
\* ticked.
C11_EmptyRejected ==
    HasInst => (Len(inst.frames) > 0 /\ ~inst_hist.panicked)

\* C12: in both registries get(name) returns the value of the latest insert
\* under that name and nothing for a name never inserted; get leaves the
\* registry unchanged; and ticking the Animation a get returned leaves the
\* registry, hence every later get, unchanged.
C12_LastWriteWins ==
    /\ [](/\ \A n \in AnimNames : AnimationGet(anim_map, n) = anim_last[n]
          /\ \A n \in Names : SoundGet(sound_map, n) = sound_last[n])
    /\ [][ /\ (got_sound' # got_sound
                => sound_map' = sound_map /\ \E n \in Names : got_sound' = sound_last[n])
           /\ (inst' # inst => anim_map' = anim_map)
           /\ ((HasInst /\ inst' # inst /\ anim_map' = anim_map /\ inst_hist'.total = 0
                  /\ inst_hist'.crossings = 0 /\ inst_ret' = NoReturn)
               => \E n \in AnimNames : inst' = anim_last[n]) ]_vars

\* C12 witness: the clone returned by get was ticked past its first frame
\* while the registry entry it was cloned from is still at index 0, and a
\* sound get returned a registered handle.
C12_Witness ==
    /\ HasInst
    /\ inst.index > 0
    /\ \E n \in AnimNames :
          /\ anim_map[n] # NoAnimation
          /\ anim_map[n].animation_type = inst.animation_type
          /\ anim_map[n].index = 0
          /\ anim_map[n].animation_type = "Repeat"
    /\ \E n \in Names : sound_map[n] = "hy" /\ got_sound = "hy"

\* C13: PlaySFX events only cause one-shot playback: a frame without
\* PlayMusic and StopMusic events issues nothing but spawns of entities
\* without the marker, and the Loop entities spawned in a frame are at most
\* those its PlayMusic events resolve to, never one for a PlaySFX name.
C13_SfxOnlyOneShot ==
    LET loops == {i \in 1..Len(commands) :
                     commands[i].op = "spawn" /\ commands[i].entity.mode = "Loop"}
    IN  /\ \A h \in Handles :
              Cardinality({i \in loops : commands[i].entity.source = h})
                  <= Count(batch.music, LAMBDA n : sound_map[n] = h)
        /\ (batch.music = <<>> /\ batch.stops = 0)
              => \A i \in 1..Len(commands) :
                    commands[i].op = "spawn" /\ ~commands[i].entity.now_playing

NonRepeat ==
    /\ HasInst
    /\ inst.animation_type # "Repeat"
    /\ Len(inst.frames) > 0

\* C14: finished = true implies the kind is Once or Despawn and index is
\* frames.len() - 1.
C14_FinishedOnLastFrame ==
    (HasInst /\ inst.finished)
    => /\ inst.animation_type \in {"Once", "Despawn"}
       /\ inst.index = Len(inst.frames) - 1

\* C14 witness: a finished Despawn instance of several frames.
C14_Witness ==
    /\ HasInst
    /\ inst.finished
    /\ inst.animation_type = "Despawn"
    /\ Len(inst.frames) >= 2

InstFinished == HasInst /\ inst.finished

\* Ticks whose delta crosses a frame boundary keep arriving.
CrossingTick ==
    /\ inst # NoAnimation
    /\ \E delta \in Deltas : Crosses(inst, delta) /\ TickInstance(delta)

\* C15: a Once or Despawn instance with n >= 1 frames, under boundary
\* crossing ticks that keep arriving, eventually has finished = true and
\* keeps it; finished is set exactly at the n-th crossing (at the first one
\* for a single frame).
C15_EventuallyFinished ==
    /\ [](NonRepeat => (inst.finished <=> inst_hist.crossings >= Len(inst.frames)))
    /\ [][InstFinished => InstFinished']_vars
    /\ (NonRepeat ~> InstFinished)

\* C15 witness: a single-frame Once instance finished by its first crossing.
C15_Witness ==
    /\ HasInst
    /\ inst.animation_type = "Once"
    /\ Len(inst.frames) = 1
    /\ inst_hist.crossings = 1
    /\ inst.finished

\* C16: one tick call moves index by at most one frame (cyclically for
\* Repeat), whatever delta is; a tick whose accumulated time stays below the
\* frame duration leaves index and finished unchanged and returns
\* frames[index].
C16_OneFramePerTick ==
    [][ (HasInst /\ Len(inst.frames) > 0 /\ ~inst_hist'.panicked)
        => LET n == Len(inst.frames)
               delta == inst_hist'.total - inst_hist.total
           IN  /\ IF inst.animation_type = "Repeat"
                  THEN inst'.index \in {inst.index, (inst.index + 1) % n}
                  ELSE inst'.index \in {inst.index, inst.index + 1}
               /\ (~inst.timer.finished /\ inst.timer.elapsed + delta < inst.timer.duration)
                  => /\ inst'.index = inst.index
                     /\ inst'.finished = inst.finished
                     /\ inst_ret' = inst.frames[inst.index + 1] ]_vars

\* C16 witness: a single crossing made by a tick of at least twice the frame
\* duration left the instance on its second frame.
C16_Witness ==
    /\ HasInst
    /\ Len(inst.frames) >= 3
    /\ inst.timer.duration = 1
    /\ inst_hist.crossings = 1
    /\ inst_hist.total >= 2
    /\ inst.index = 1

RepeatInst ==
    /\ HasInst
    /\ inst.animation_type = "Repeat"
    /\ Len(inst.frames) > 0

\* C17: for a Repeat instance with n frames every boundary-crossing tick sets
\* index to (index + 1) mod n and restarts the frame timer from 0, so the
\* returned frames follow the sequence cyclically and index is back at 0
\* after n crossings.
C17_RepeatCycles ==
    /\ [](RepeatInst =>
            /\ inst.index = inst_hist.crossings % Len(inst.frames)
            /\ inst_ret # NoReturn
                  => inst_ret = inst.frames[(inst_hist.crossings % Len(inst.frames)) + 1])
    /\ [][ (RepeatInst /\ inst_hist'.crossings = inst_hist.crossings + 1)
           => /\ inst'.index = (inst.index + 1) % Len(inst.frames)
              /\ inst'.timer.elapsed = 0
              /\ ~inst'.timer.finished ]_vars

\* C17 witness: a three-frame Repeat instance back on its first frame after
\* three crossings.
C17_Witness ==
    /\ RepeatInst
    /\ Len(inst.frames) = 3
    /\ inst_hist.crossings = 3
    /\ inst.index = 0
    /\ inst_ret = inst.frames[1]

OnceKind(s) ==
    /\ s.state = "alive"
    /\ s.animation # NoAnimation
    /\ s.animation.animation_type = "Once"

Frozen(s) == s.state = "alive" /\ s.animation = NoAnimation

\* C18: for an entity with a Once animation the run of the driver that
\* finishes the animation removes the Animation component and leaves the
\* entity showing the last frame; the driver never despawns it, and from
\* then on the entity exists, has no Animation and its sprite index never
\* changes.
C18_OnceFreezes ==
    /\ [](\A e \in SpriteIds :
            /\ OnceKind(sprites[e]) => ~sprites[e].animation.finished
            /\ Frozen(sprites[e]) => despawns[e] = 0)
    /\ [][\A e \in SpriteIds :
            /\ OnceKind(sprites[e])
               => \/ OnceKind(sprites'[e]) /\ ~sprites'[e].animation.finished
                  \/ /\ Frozen(sprites'[e])
                     /\ sprites'[e].index
                           = sprites[e].animation.frames[Len(sprites[e].animation.frames)]
                     /\ [op |-> "remove", entity |-> e] \in anim_cmds'
                     /\ despawns'[e] = 0
            /\ Frozen(sprites[e]) => sprites'[e] = sprites[e] ]_vars

\* C18 witness: an entity frozen on the last frame of a three-frame sequence,
\* after a later run of the driver that issued no command.
C18_Witness ==
    \E e \in SpriteIds :
        /\ Frozen(sprites[e])
        /\ sprites[e].index = Strip(3)[3]
        /\ anim_cmds = {}

\* C19: in one frame no entity is issued more than one despawn command,
\* whatever the order in which play_music and stop_music run.
C19_NoDoubleDespawn ==
    \A id \in 1..MaxEntityId :
        Cardinality({i \in 1..Len(commands) :
                        commands[i].op = "despawn" /\ commands[i].id = id}) <= 1

(* ========================== specifications ============================ *)
Init == SoundInit /\ InstInit /\ DriverInit /\ TableInit

Next == SoundNext \/ InstNext \/ DriverNext \/ TableNext

Spec == Init /\ [][Next]_vars

\* The sound plugin, the Animation value and the animation driver share no
\* state; each is explored on its own from the same initial states.
SoundSpec == Init /\ [][SoundNext]_vars
InstSpec == Init /\ [][InstNext]_vars
DriverSpec == Init /\ [][DriverNext]_vars
TableSpec == Init /\ [][TableNext]_vars

\* The Animation value under a caller (the FixedUpdate driver) that keeps
\* ticking it with a delta that crosses the frame boundary.
InstFairSpec == Init /\ [][InstNext]_vars /\ WF_vars(CrossingTick)


====
